---- MODULE Spec2Model ----
(***************************************************************************)
(* Coordinate-system detection, reprojection and GeoJSON batch upload of   *)
(* src/src/components/map/MapView.tsx (detectCoordinateSystem,             *)
(* convertCoordinates, extractCoordinates, uploadGeoJSONWithProj4).        *)
(*                                                                         *)
(* JavaScript values are records [t |-> tag, v |-> payload]:               *)
(*   "num"   a finite number, v = <<i, f>> standing for i + f / 10^7       *)
(*           (i the floor, f the seven decimals, 0 <= f < 10^7)            *)
(*   "nan"   NaN                 "inf"  +/-Infinity, v = 1 or -1           *)
(*   "str"   a string, v the text                                          *)
(*   "tmpl"  the string of a template literal, v the sequence of its parts *)
(*   "bool"  v = TRUE / FALSE    "null" null      "undef" undefined        *)
(*   "arr"   an array, v the sequence of its elements                      *)
(*   "obj"   a plain object, v a function from its keys to values          *)
(*   "hostile" a plain object whose own toString / valueOf are not         *)
(*           callable, e.g. JSON {"toString": 1}: Number() of it throws    *)
(***************************************************************************)
EXTENDS Integers, Sequences, FiniteSets, TLC

VARIABLES
    probe,            \* a call of one of the pure helpers: fn, arg, ret
    pc,               \* position of the uploadGeoJSONWithProj4 invocation
    geojson,          \* its first argument
    table,            \* its second argument
    conversionStats,  \* the statistics object, Undef before it is created
    index,            \* number of features the map callback has handled
    mapped,           \* what the map callback returned for each feature
    toInsert,         \* the filtered records, Undef before the filter ran
    inserts,          \* the record arrays handed to supabase insert
    outcome,          \* what the invocation returned or threw
    trace,            \* the helper calls made, each with the feature's index
    others,           \* the invocations made before the one that is running
    ui                \* the catalogue's upload form: React state, pending
                      \* handleSubmit calls and timers

vars == <<probe, pc, geojson, table, conversionStats, index, mapped,
          toInsert, inserts, outcome, trace, others, ui>>

uploadVars == <<pc, geojson, table, conversionStats, index, mapped,
                toInsert, inserts, outcome, trace, others>>

-----------------------------------------------------------------------------
(* JavaScript values *)

Scale == 10 ^ 7

Num(i, f) == [t |-> "num", v |-> <<i, f>>]
Whole(n)  == Num(n, 0)
NaN       == [t |-> "nan", v |-> 0]
Infinity  == [t |-> "inf", v |-> 1]
NegInfinity == [t |-> "inf", v |-> -1]
Str(s)    == [t |-> "str", v |-> s]
Tmpl(a)   == [t |-> "tmpl", v |-> a]
Bool(b)   == [t |-> "bool", v |-> b]
Null      == [t |-> "null", v |-> 0]
Undef     == [t |-> "undef", v |-> 0]
Arr(a)    == [t |-> "arr", v |-> a]
Obj(o)    == [t |-> "obj", v |-> o]
Hostile   == [t |-> "hostile", v |-> 0]

\* typeof v === 'number'
IsNumber(v) == v.t \in {"num", "nan", "inf"}

\* Array.isArray(v)
IsArray(v) == v.t = "arr"

\* ToBoolean(v): what `!v`, `v || w` and `v ? a : b` test
Truthy(v) ==
    CASE v.t = "num"  -> v.v # <<0, 0>>
      [] v.t = "str"  -> v.v # ""
      [] v.t = "bool" -> v.v
      [] v.t \in {"nan", "null", "undef"} -> FALSE
      [] OTHER -> TRUE

\* a || b
Or(a, b) == IF Truthy(a) THEN a ELSE b

\* a[i] for a 0-based index: undefined when a is not an array or is too short
At(a, i) == IF a.t = "arr" /\ i + 1 <= Len(a.v) THEN a.v[i + 1] ELSE Undef

\* o.k (or o?.k): undefined when o has no such key or is not an object;
\* the callers guard the cases where a plain o.k would throw
Get(o, k) == IF o.t = "obj" /\ k \in DOMAIN o.v THEN o.v[k] ELSE Undef

\* The decimal strings of the property values used below, with their values.
DecimalLiterals ==
    ("120" :> Whole(120)) @@ ("7.5" :> Num(7, 5000000)) @@ ("14.5" :> Num(14, 5000000))

StringToNumber(s) ==
    IF s = "" THEN Whole(0)
    ELSE IF s \in DOMAIN DecimalLiterals THEN DecimalLiterals[s] ELSE NaN

\* Number(v) throws a TypeError when v cannot be converted to a primitive:
\* v is such an object, or an array whose join meets one
NumberThrows(v) ==
    \/ v.t = "hostile"
    \/ v.t = "arr" /\ \E k \in 1..Len(v.v) : v.v[k].t = "hostile"

\* Number(v) for a v it does not throw on
ToNumber(v) ==
    CASE IsNumber(v)    -> v
      [] v.t = "str"    -> StringToNumber(v.v)
      [] v.t = "bool"   -> IF v.v THEN Whole(1) ELSE Whole(0)
      [] v.t = "null"   -> Whole(0)
      [] v.t = "arr"    -> IF v.v = <<>> THEN Whole(0)
                           ELSE IF Len(v.v) = 1 /\ IsNumber(v.v[1]) THEN v.v[1]
                           ELSE IF Len(v.v) = 1 /\ v.v[1].t = "str"
                                THEN StringToNumber(v.v[1].v)
                           ELSE IF Len(v.v) = 1 /\ v.v[1].t \in {"null", "undef"}
                                THEN Whole(0)
                           ELSE NaN
      [] OTHER          -> NaN

\* m <= n on numbers: any comparison with NaN is false
LeqNumbers(m, n) ==
    CASE m.t = "nan" \/ n.t = "nan" -> FALSE
      [] m.t = "inf" -> m.v = -1 \/ (n.t = "inf" /\ n.v = 1)
      [] n.t = "inf" -> n.v = 1
      [] OTHER -> \/ m.v[1] < n.v[1]
                  \/ (m.v[1] = n.v[1] /\ m.v[2] <= n.v[2])

\* a <= b where one side is a number: the other side is converted as
\* Number() converts it
Leq(a, b) == LeqNumbers(ToNumber(a), ToNumber(b))

\* a >= b
Geq(a, b) == Leq(b, a)

\* Number(n.toFixed(d)) for a finite n and d <= 7 decimals: the nearest
\* multiple of 10^-d, a tie going away from zero
ToFixed(n, d) ==
    LET unit == 10 ^ (7 - d)
        f    == n.v[2]
        q    == IF n.v[1] >= 0 THEN (2 * f + unit) \div (2 * unit)
                ELSE (2 * f + unit - 1) \div (2 * unit)
    IN  IF q * unit = Scale THEN Num(n.v[1] + 1, 0) ELSE Num(n.v[1], q * unit)

\* n.toFixed(d) of any number: NaN and the infinities print as themselves
FixedOf(n, d) == IF n.t = "num" THEN ToFixed(n, d) ELSE n

-----------------------------------------------------------------------------
(* detectCoordinateSystem *)

WGS84   == "EPSG:4326"
UTM28N  == "EPSG:32628"
UTM27N  == "EPSG:32627"
LAMBERT == "EPSG:2147"

Catalogue == {WGS84, UTM28N, UTM27N, LAMBERT}

InRange_exclusive(x, xmin, xmax, y, ymin, ymax) ==
    /\ Geq(x, Whole(xmin)) /\ x # Whole(xmin) /\ Leq(x, Whole(xmax)) /\ x # Whole(xmax)
    /\ Geq(y, Whole(ymin)) /\ y # Whole(ymin) /\ Leq(y, Whole(ymax)) /\ y # Whole(ymax)

InRange(x, xmin, xmax, y, ymin, ymax) ==
    Geq(x, Whole(xmin)) /\ Leq(x, Whole(xmax))
    /\ Geq(y, Whole(ymin)) /\ Leq(y, Whole(ymax))

InGeographic(x, y) == InRange(x, -180, 180, y, -90, 90)
InUTM28N(x, y)     == InRange(x, 200000, 800000, y, 1400000, 1900000)
InUTM27N_wide(x, y) == InRange(x, 400000, 1000000, y, 1400000, 1900000)
InUTM27N(x, y)     == InRange(x, 400000, 900000, y, 1400000, 1900000)
InLambert(x, y)    == InRange(x, 200000, 600000, y, 0, 500000)

\* No range matches: the branch that warns and falls back.
FallsBack(x, y) ==
    ~InGeographic(x, y) /\ ~InUTM28N(x, y) /\ ~InUTM27N(x, y) /\ ~InLambert(x, y)

Fallback_lambert == LAMBERT

\* The system returned when no range matches.
Fallback == UTM28N

detectCoordinateSystem_27first(x, y) ==
    IF InGeographic(x, y) THEN WGS84
    ELSE IF InUTM27N(x, y) THEN UTM27N
    ELSE IF InUTM28N(x, y) THEN UTM28N
    ELSE IF InLambert(x, y) THEN LAMBERT
    ELSE Fallback

detectCoordinateSystem(x, y) ==
    IF InGeographic(x, y) THEN WGS84
    ELSE IF InUTM28N(x, y) THEN UTM28N
    ELSE IF InUTM27N(x, y) THEN UTM27N
    ELSE IF InLambert(x, y) THEN LAMBERT
    ELSE Fallback

-----------------------------------------------------------------------------
(* convertCoordinates *)

\* A result object; a field that is Undef is absent from the object.
Result(lon, lat, sys, err) ==
    [longitude |-> lon, latitude |-> lat, sourceSystem |-> sys, error |-> err]

Failure_noError(err) == Result(Null, Null, Undef, Undef)

Failure(err) == Result(Null, Null, Undef, err)

senegalBounds ==
    [minLon |-> Num(-18, 2000000), maxLon |-> Num(-12, 8000000),
     minLat |-> Whole(12),         maxLat |-> Num(16, 8000000)]

InSenegal_lonOnly(longitude, latitude) ==
    Geq(longitude, senegalBounds.minLon) /\ Leq(longitude, senegalBounds.maxLon)

InSenegal(longitude, latitude) ==
    /\ Geq(longitude, senegalBounds.minLon) /\ Leq(longitude, senegalBounds.maxLon)
    /\ Geq(latitude, senegalBounds.minLat)  /\ Leq(latitude, senegalBounds.maxLat)

\* What the call proj4(sourceProj, 'EPSG:4326', [x, y]) does. The library is
\* not part of the repository: it either returns a pair of numbers or throws
\* an Error, and the helpers below are checked for each of these outcomes.
ProjReturns(lon, lat) == [kind |-> "return", lon |-> lon, lat |-> lat, message |-> ""]
ProjThrows(msg)       == [kind |-> "throw", lon |-> NaN, lat |-> NaN, message |-> msg]

\* A call of a helper, and whether it gave a usable value.
CallOf(fn, ok) == [fn |-> fn, ok |-> ok]

Passthrough_rounded(x, y, sourceProj) ==
    Result(ToFixed(x, 6), ToFixed(y, 6), Str(sourceProj), Undef)

\* return { longitude: x, latitude: y, sourceSystem: sourceProj }
Passthrough(x, y, sourceProj) == Result(x, y, Str(sourceProj), Undef)

\* The result for the pair proj4 returned.
Reprojected(longitude, latitude, sourceProj) ==
    IF InSenegal(longitude, latitude)
    THEN Result(ToFixed(longitude, 6), ToFixed(latitude, 6), Str(sourceProj), Undef)
    ELSE Failure(Tmpl(<<Str("Coordonnées converties hors limites du Sénégal: "),
                        FixedOf(longitude, 2), FixedOf(latitude, 2)>>))

\* An exception that leaves a function instead of a returned value.
Thrown(e) == [t |-> "throw", v |-> e]

Caught_rethrown(message) == Thrown(Str(message))

\* The result of the catch clause for a thrown Error.
Caught(message) == Failure(Tmpl(<<Str("Erreur de conversion: "), Str(message)>>))

NonNumeric_xOnly(x, y) == ~IsNumber(x)

\* typeof x !== 'number' || typeof y !== 'number'
NonNumeric(x, y) == ~IsNumber(x) \/ ~IsNumber(y)

\* convertCoordinates(coordinates) when a proj4 call, if made, does `proj`:
\* the returned object and the calls made on the way.
ConvertRun(coordinates, proj) ==
    IF ~IsArray(coordinates) \/ Len(coordinates.v) < 2
    THEN [ret |-> Failure(Str("Coordonnées invalides")), calls |-> <<>>]
    ELSE LET x == At(coordinates, 0)
             y == At(coordinates, 1)
         IN  IF NonNumeric(x, y)
             THEN [ret |-> Failure(Str("Coordonnées non numériques")), calls |-> <<>>]
             ELSE LET sourceProj == detectCoordinateSystem(x, y)
                  IN  IF sourceProj = WGS84
                      THEN [ret   |-> Passthrough(x, y, sourceProj),
                            calls |-> <<CallOf("detectCoordinateSystem", TRUE)>>]
                      ELSE [ret   |-> IF proj.kind = "throw"
                                      THEN Caught(proj.message)
                                      ELSE Reprojected(proj.lon, proj.lat, sourceProj),
                            calls |-> <<CallOf("detectCoordinateSystem", TRUE),
                                        CallOf("proj4", proj.kind = "return")>>]

convertCoordinates(coordinates, proj) == ConvertRun(coordinates, proj).ret

-----------------------------------------------------------------------------
(* extractCoordinates *)

\* o.k read without a guard: a TypeError when o is null or undefined
Read(o, k) == IF o.t \in {"null", "undef"} THEN Thrown(Str("TypeError")) ELSE Get(o, k)

NoGeometry_strictNull(geometry) == geometry = Null

\* !geometry
NoGeometry(geometry) == ~Truthy(geometry)

extractCoordinates_firstRing(geometry) ==
    IF NoGeometry(geometry) THEN Null
    ELSE LET type == Get(geometry, "type")
             c    == Read(geometry, "coordinates")
             c0   == At(c, 0)
             c00  == At(c0, 0)
             c000 == At(c00, 0)
         IN  CASE c.t = "throw" -> c
               [] ~Truthy(c) -> Null
               [] type = Str("Point") -> c
               [] type \in {Str("LineString"), Str("MultiPoint")} ->
                    IF IsArray(c0) THEN c0 ELSE Null
               [] type \in {Str("Polygon"), Str("MultiLineString")} ->
                    IF IsArray(c0) /\ IsArray(c00) THEN c0 ELSE Null
               [] type = Str("MultiPolygon") ->
                    IF IsArray(c0) /\ IsArray(c00) /\ IsArray(c000) THEN c000 ELSE Null
               [] OTHER -> Null

extractCoordinates(geometry) ==
    IF NoGeometry(geometry) THEN Null
    ELSE LET type == Get(geometry, "type")
             c    == Read(geometry, "coordinates")
             c0   == At(c, 0)
             c00  == At(c0, 0)
             c000 == At(c00, 0)
         IN  CASE c.t = "throw" -> c
               [] ~Truthy(c) -> Null
               [] type = Str("Point") -> c
               [] type \in {Str("LineString"), Str("MultiPoint")} ->
                    IF IsArray(c0) THEN c0 ELSE Null
               [] type \in {Str("Polygon"), Str("MultiLineString")} ->
                    IF IsArray(c0) /\ IsArray(c00) THEN c00 ELSE Null
               [] type = Str("MultiPolygon") ->
                    IF IsArray(c0) /\ IsArray(c00) /\ IsArray(c000) THEN c000 ELSE Null
               [] OTHER -> Null

-----------------------------------------------------------------------------
(* uploadGeoJSONWithProj4: the callback of geojson.features.map *)

Tables == {"collection_points", "urban_furniture", "sweeping_routes"}

\* feature.properties?.k
Prop(feature, k) == Get(Get(feature, "properties"), k)

\* a || b || c   and   a || b || c || d
Or3(a, b, c)    == Or(Or(a, b), c)
Or4(a, b, c, d) == Or(Or3(a, b, c), d)

getName_zeroBased(feature, i) ==
    Or(Or4(Prop(feature, "name"), Prop(feature, "nom"),
           Prop(feature, "NAME"), Prop(feature, "NOM")),
       Tmpl(<<Str("Élément "), Whole(i)>>))

getName(feature, i) ==
    Or(Or4(Prop(feature, "name"), Prop(feature, "nom"),
           Prop(feature, "NAME"), Prop(feature, "NOM")),
       Tmpl(<<Str("Élément "), Whole(i + 1)>>))

getStatus(feature) ==
    Or4(Prop(feature, "status"), Prop(feature, "statut"),
        Prop(feature, "STATUS"), Prop(feature, "STATUT"))

commune_id(feature) ==
    Or3(Prop(feature, "commune_id"), Prop(feature, "COMMUNE_ID"), Null)

\* new Date().toISOString()
NowISO == Str("<now>")

capacityArg(feature) ==
    Or3(Prop(feature, "capacity_kg"), Prop(feature, "capacite_kg"),
        Prop(feature, "CAPACITY_KG"))

lengthArg(feature) ==
    Or4(Prop(feature, "length_meters"), Prop(feature, "longueur_m"),
        Prop(feature, "LENGTH_METERS"), Prop(feature, "LONGUEUR_M"))

durationArg(feature) ==
    Or4(Prop(feature, "estimated_duration_minutes"), Prop(feature, "duree_estimee_min"),
        Prop(feature, "ESTIMATED_DURATION"), Prop(feature, "DUREE_ESTIMEE"))

NumberOr0_noDefault(arg) == ToNumber(arg)

\* Number(arg) || 0
NumberOr0(arg) == Or(ToNumber(arg), Whole(0))

\* Whether building the record throws: a Number() call on a value that has
\* no primitive value.
RecordThrows(feature, tbl) ==
    CASE tbl \in {"collection_points", "urban_furniture"} ->
           NumberThrows(capacityArg(feature))
      [] tbl = "sweeping_routes" ->
           NumberThrows(lengthArg(feature)) \/ NumberThrows(durationArg(feature))
      [] OTHER -> FALSE

\* The object the callback returns for a converted feature (null for a table
\* that is none of the three), when building it does not throw.
Record(feature, i, tbl, longitude, latitude) ==
    CASE tbl = "collection_points" ->
           Obj([latitude    |-> latitude,
                longitude   |-> longitude,
                commune_id  |-> commune_id(feature),
                name        |-> getName(feature, i),
                type        |-> Or3(Prop(feature, "type"), Prop(feature, "TYPE"), Str("bin")),
                capacity_kg |-> NumberOr0(capacityArg(feature)),
                waste_type  |-> Or4(Prop(feature, "waste_type"), Prop(feature, "type_dechet"),
                                    Prop(feature, "WASTE_TYPE"), Str("general")),
                status      |-> Or(getStatus(feature), Str("active"))])
      [] tbl = "urban_furniture" ->
           Obj([latitude    |-> latitude,
                longitude   |-> longitude,
                commune_id  |-> commune_id(feature),
                type        |-> Or3(Prop(feature, "type"), Prop(feature, "TYPE"), Str("PRN")),
                name        |-> getName(feature, i),
                location    |-> Or(Or4(Prop(feature, "location"), Prop(feature, "adresse"),
                                       Prop(feature, "LOCATION"), Prop(feature, "ADRESSE")),
                                   Str("")),
                install_date |-> Or4(Prop(feature, "install_date"),
                                     Prop(feature, "date_installation"),
                                     Prop(feature, "INSTALL_DATE"), NowISO),
                last_maintenance_date |->
                                Or4(Prop(feature, "last_maintenance_date"),
                                    Prop(feature, "derniere_maintenance"),
                                    Prop(feature, "LAST_MAINTENANCE"), Null),
                capacity_kg |-> NumberOr0(capacityArg(feature)),
                status      |-> Or(getStatus(feature), Str("good"))])
      [] tbl = "sweeping_routes" ->
           LET route ==
               [name        |-> getName(feature, i),
                code        |-> Or(Or4(Prop(feature, "code"), Prop(feature, "CODE"),
                                       Prop(feature, "identifiant"),
                                       Prop(feature, "IDENTIFIANT")), Null),
                commune_id  |-> commune_id(feature),
                shift       |-> Or(Or4(Prop(feature, "shift"), Prop(feature, "equipe"),
                                       Prop(feature, "SHIFT"), Prop(feature, "EQUIPE")),
                                   Str("matin")),
                length_meters |-> NumberOr0(lengthArg(feature)),
                estimated_duration_minutes |-> NumberOr0(durationArg(feature)),
                status      |-> Or(getStatus(feature), Str("active"))]
           IN  IF Truthy(longitude) /\ Truthy(latitude)
               THEN Obj(route @@ [latitude |-> latitude, longitude |-> longitude])
               ELSE Obj(route)
      [] OTHER -> Null

CountFailed_forgotten(stats) == stats

\* conversionStats.failed++
CountFailed(stats) == [stats EXCEPT !.failed = @ + 1]

CountSuccess_noSystems(stats, sourceSystem) == [stats EXCEPT !.success = @ + 1]

\* conversionStats.success++ and the update of conversionStats.systems
CountSuccess(stats, sourceSystem) ==
    LET s == [stats EXCEPT !.success = @ + 1]
    IN  IF Truthy(sourceSystem)
        THEN [s EXCEPT !.systems =
                 (sourceSystem.v :>
                    (IF sourceSystem.v \in DOMAIN @ THEN @[sourceSystem.v] ELSE 0) + 1) @@ @]
        ELSE s

\* One run of the map callback on features[i] (0-based i) with the statistics
\* as they stand: the returned item, the statistics afterwards and the helper
\* calls made. An exception anywhere in the body lands in the catch clause.
MapFeature(feature, i, tbl, stats, proj) ==
    IF feature.t \in {"null", "undef"}
    THEN \* reading feature.geometry throws a TypeError
         [item |-> Null, stats |-> CountFailed(stats), calls |-> <<>>]
    ELSE
    LET coordinates == extractCoordinates(Get(feature, "geometry"))
    IN  IF ~Truthy(coordinates)
        THEN [item |-> Null, stats |-> CountFailed(stats),
              calls |-> <<CallOf("extractCoordinates", FALSE)>>]
        ELSE
        LET run  == ConvertRun(coordinates, proj)
            conv == run.ret
            ok   == conv.longitude # Null /\ conv.latitude # Null
            done == <<CallOf("extractCoordinates", TRUE)>> \o run.calls
                    \o <<CallOf("convertCoordinates", ok)>>
        IN  IF conv.longitude = Null \/ conv.latitude = Null
            THEN [item |-> Null, stats |-> CountFailed(stats), calls |-> done]
            ELSE
            LET counted == CountSuccess(stats, conv.sourceSystem)
            IN  IF RecordThrows(feature, tbl)
                THEN [item |-> Null, stats |-> CountFailed(counted), calls |-> done]
                ELSE [item  |-> Record(feature, i, tbl, conv.longitude, conv.latitude),
                      stats |-> counted, calls |-> done]

-----------------------------------------------------------------------------
(* uploadGeoJSONWithProj4 *)

E_OBJECT   == "Le fichier doit contenir un objet JSON valide"
E_TYPE     == "Le GeoJSON doit être de type \"FeatureCollection\""
E_FEATURES == "Le GeoJSON doit contenir un tableau \"features\""
E_EMPTY    == "Le GeoJSON ne contient aucune feature"
E_NONE     == "Aucune feature valide trouvée dans le GeoJSON après conversion"
E_INSERT   == "Erreur lors de l'insertion en base : "

\* new Error(message)
Error(message) == [t |-> "error", v |-> message]

\* typeof v === 'object'
IsObject(v) == v.t \in {"null", "arr", "obj", "hostile"}

PreCheckError_emptyAllowed(g) ==
    IF ~Truthy(g) \/ ~IsObject(g) THEN Error(Str(E_OBJECT))
    ELSE IF Get(g, "type") # Str("FeatureCollection") THEN Error(Str(E_TYPE))
    ELSE IF ~Truthy(Get(g, "features")) \/ ~IsArray(Get(g, "features"))
         THEN Error(Str(E_FEATURES))
    ELSE Undef

\* The error of the first structural check that fails, Undef when all pass.
PreCheckError(g) ==
    IF ~Truthy(g) \/ ~IsObject(g) THEN Error(Str(E_OBJECT))
    ELSE IF Get(g, "type") # Str("FeatureCollection") THEN Error(Str(E_TYPE))
    ELSE IF ~Truthy(Get(g, "features")) \/ ~IsArray(Get(g, "features"))
         THEN Error(Str(E_FEATURES))
    ELSE IF Len(Get(g, "features").v) = 0 THEN Error(Str(E_EMPTY))
    ELSE Undef

NewSystems_carried ==
    IF others # <<>> /\ others[1].conversionStats # Undef
    THEN others[1].conversionStats.systems
    ELSE <<>>

\* The literal {} of `systems`: an object created by the invocation.
NewSystems == <<>>

NewStats_zeroTotal(g) ==
    [total |-> 0, success |-> 0, failed |-> 0, systems |-> <<>>]

\* { total: geojson.features.length, success: 0, failed: 0, systems: {} }
NewStats(g) ==
    [total |-> Len(Get(g, "features").v), success |-> 0, failed |-> 0,
     systems |-> NewSystems]

FilterNotNull_keepsAll(a) == a

\* array.filter(item => item !== null)
RECURSIVE FilterNotNull(_)
FilterNotNull(a) ==
    IF a = <<>> THEN <<>>
    ELSE IF Head(a) # Null THEN <<Head(a)>> \o FilterNotNull(Tail(a))
    ELSE FilterNotNull(Tail(a))

\* What `await supabase.from(table).insert(toInsert)` resolves to.
InsertResponses ==
    { [data |-> Null, error |-> Null],
      [data |-> Null, error |-> Obj([message |-> Str("permission denied for table")])] }

InsertError_bare(error) == Error(Get(error, "message"))

\* new Error(`Erreur lors de l'insertion en base : ${error.message}`)
InsertError(error) == Error(Tmpl(<<Str(E_INSERT), Get(error, "message")>>))

Inserted_twice(log, tbl, records) ==
    log \o <<[table |-> tbl, records |-> records], [table |-> tbl, records |-> records]>>

\* The calls of supabase.from(tbl).insert(records) made so far, with one more.
Inserted(log, tbl, records) == Append(log, [table |-> tbl, records |-> records])

Returned_running(data, records, stats) ==
    [data |-> data,
     count |-> IF toInsert # Undef THEN Len(toInsert.v) ELSE Len(records),
     skipped |-> IF conversionStats # Undef THEN conversionStats.failed ELSE stats.failed,
     conversionStats |-> IF conversionStats # Undef THEN conversionStats ELSE stats]

\* The object returned on success.
Returned(data, records, stats) ==
    [data |-> data, count |-> Len(records), skipped |-> stats.failed,
     conversionStats |-> stats]

\* `throw e` inside the outer try: the catch clause logs e and rethrows it.
Throw(e) ==
    /\ pc' = "thrown"
    /\ outcome' = [kind |-> "throw", value |-> e]

Collect_front(items, item) == <<item>> \o items

\* The array Array.map builds: the item of each feature after those of the
\* features before it.
Collect(items, item) == Append(items, item)

\* The caller invokes uploadGeoJSONWithProj4(g, tbl).
Call(g, tbl) ==
    /\ pc = "idle"
    /\ pc' = "check"
    /\ geojson' = g
    /\ table' = tbl
    /\ conversionStats' = Undef
    /\ index' = 0
    /\ mapped' = <<>>
    /\ toInsert' = Undef
    /\ inserts' = <<>>
    /\ outcome' = [kind |-> "none", value |-> Undef]
    /\ trace' = <<>>
    /\ UNCHANGED <<probe, others, ui>>

\* The four structural checks and the creation of conversionStats.
PreCheck ==
    /\ pc = "check"
    /\ IF PreCheckError(geojson) # Undef
       THEN /\ Throw(PreCheckError(geojson))
            /\ UNCHANGED conversionStats
       ELSE /\ pc' = "map"
            /\ conversionStats' = NewStats(geojson)
            /\ UNCHANGED outcome
    /\ UNCHANGED <<probe, others, ui, geojson, table, index, mapped, toInsert, inserts, trace>>

\* The map callback runs on the next feature.
MapStep(proj) ==
    /\ pc = "map"
    /\ index < Len(Get(geojson, "features").v)
    /\ \E r \in { MapFeature(Get(geojson, "features").v[index + 1], index, table,
                             conversionStats, proj) } :
           /\ conversionStats' = r.stats
           /\ mapped' = Collect(mapped, r.item)
           /\ trace' = trace \o [k \in 1..Len(r.calls) |->
                                    [fn |-> r.calls[k].fn, ok |-> r.calls[k].ok,
                                     feature |-> index]]
    /\ index' = index + 1
    /\ UNCHANGED <<probe, others, ui, pc, geojson, table, toInsert, inserts, outcome>>

\* After the last feature: the filter, the empty-result check and the call
\* of insert, on which the function suspends.
Filter ==
    /\ pc = "map"
    /\ index = Len(Get(geojson, "features").v)
    /\ toInsert' = Arr(FilterNotNull(mapped))
    /\ IF Len(toInsert'.v) = 0
       THEN /\ Throw(Error(Str(E_NONE)))
            /\ UNCHANGED inserts
       ELSE /\ pc' = "insert"
            /\ inserts' = Inserted(inserts, table, toInsert'.v)
            /\ UNCHANGED outcome
    /\ UNCHANGED <<probe, others, ui, geojson, table, conversionStats, index, mapped, trace>>

\* The insert settles and the function resumes.
InsertSettles(response) ==
    /\ pc = "insert"
    /\ IF Truthy(response.error)
       THEN Throw(InsertError(response.error))
       ELSE /\ pc' = "returned"
            /\ outcome' = [kind |-> "return",
                           value |-> Returned(response.data, toInsert.v, conversionStats)]
    /\ UNCHANGED <<probe, others, ui, geojson, table, conversionStats, index, mapped,
                   toInsert, inserts, trace>>

\* The locals of the running invocation, kept when another one starts;
\* `at` is where it was at that moment.
Frame ==
    [pc |-> pc, at |-> pc, geojson |-> geojson, table |-> table,
     conversionStats |-> conversionStats, mapped |-> mapped, toInsert |-> toInsert,
     outcome |-> outcome, trace |-> trace]

\* A new invocation starts with locals of its own; the calls of insert made
\* so far stay made.
Start(g, tbl) ==
    /\ others' = Append(others, Frame)
    /\ pc' = "check"
    /\ geojson' = g
    /\ table' = tbl
    /\ conversionStats' = Undef
    /\ index' = 0
    /\ mapped' = <<>>
    /\ toInsert' = Undef
    /\ outcome' = [kind |-> "none", value |-> Undef]
    /\ trace' = <<>>
    /\ UNCHANGED <<probe, inserts, ui>>

\* The caller, after the invocation has returned or thrown, invokes the
\* function again with the same arguments.
CallAgain ==
    /\ pc \in {"returned", "thrown"}
    /\ others = <<>>
    /\ Start(geojson, table)

\* While the invocation is suspended on the await of insert, the only await
\* of the function, the caller invokes uploadGeoJSONWithProj4(g, tbl).
CallMeanwhile(g, tbl) ==
    /\ pc = "insert"
    /\ others = <<>>
    /\ Start(g, tbl)

\* A suspended invocation after its insert has settled.
Resumed(frame, response) ==
    IF Truthy(response.error)
    THEN [frame EXCEPT !.pc = "thrown",
                       !.outcome = [kind |-> "throw", value |-> InsertError(response.error)]]
    ELSE [frame EXCEPT !.pc = "returned",
                       !.outcome = [kind |-> "return",
                                    value |-> Returned(response.data, frame.toInsert.v,
                                                       frame.conversionStats)]]

\* The insert of the suspended invocation settles; it resumes once the
\* running one is itself suspended or has finished.
Resume(response) ==
    /\ others # <<>>
    /\ others[1].pc = "insert"
    /\ pc \in {"insert", "returned", "thrown"}
    /\ others' = <<Resumed(others[1], response)>>
    /\ UNCHANGED <<probe, pc, geojson, table, conversionStats, index, mapped,
                   toInsert, inserts, outcome, trace, ui>>

-----------------------------------------------------------------------------
(* Inputs *)

MaxFeatures == 3
MaxCoords == 3

Below(n) == Num(n - 1, Scale - 1)
Above(n) == Num(n, 1)
Around(n) == {Below(n), Whole(n), Above(n)}

\* What a proj4 call may do: a point inside the regional box with a seventh
\* decimal, the corners of the box, points just outside it, a far point,
\* a NaN pair, and an exception.
ProjOutcomes ==
    { ProjReturns(Num(-17, 5532877), Num(14, 6928004)),
      ProjReturns(Num(-18, 2000000), Whole(12)),
      ProjReturns(Num(-12, 8000000), Num(16, 8000000)),
      ProjReturns(Num(-18, 1999999), Whole(12)),
      ProjReturns(Num(-12, 8000000), Num(16, 8000001)),
      ProjReturns(Num(2, 3522219), Num(48, 8566140)),
      ProjReturns(NaN, NaN),
      ProjThrows("coordinates must be finite numbers") }

\* The outcomes of a proj4 call tried for each feature of a batch: a pair
\* inside the regional box, a pair outside it, and an exception.
BatchProjOutcomes ==
    { ProjReturns(Num(-17, 5532877), Num(14, 6928004)),
      ProjReturns(Num(-18, 1999999), Whole(12)),
      ProjThrows("coordinates must be finite numbers") }

\* Arguments of detectCoordinateSystem: on, just inside and just outside
\* every boundary of the four ranges, inside the ranges and far from them.
DetectXs ==
    UNION { Around(n) : n \in {-180, 180, 200000, 400000, 600000, 800000, 900000} }
    \cup {Whole(0), Whole(500000), Whole(850000), NaN, Infinity, NegInfinity}

DetectYs ==
    UNION { Around(n) : n \in {-90, 90, 0, 500000, 1400000, 1900000} }
    \cup {Whole(45), Whole(250000), Whole(1650000), NaN, Infinity, NegInfinity}

\* Elements of the arrays handed to convertCoordinates.
CoordElements ==
    { Whole(-180), Num(-18, 5532877), Whole(0), Num(14, 6928004), Above(90),
      Whole(300000), Whole(1630000), NaN, Infinity, Str("14.5"), Null }

\* Arguments of convertCoordinates: values that are no arrays, and arrays of
\* up to MaxCoords elements.
ConvertArgs ==
    { Null, Undef, Str("-17.4,14.7"), Whole(5),
      Obj([x |-> Whole(-17), y |-> Whole(14)]) }
    \cup UNION { { Arr(a) : a \in [1..n -> CoordElements] } : n \in 0..MaxCoords }

\* Arguments of extractCoordinates. A leaf is what stands where a position is
\* expected; it is wrapped in up to MaxNesting lists, each list holding a
\* second element after it.
MaxNesting == 3

GeometryTypes ==
    { "Point", "LineString", "MultiPoint", "Polygon", "MultiLineString",
      "MultiPolygon", "GeometryCollection", "Feature" }

OtherPosition == Arr(<<Num(-17, 0), Whole(15)>>)

Positions ==
    { Arr(<<Num(-18, 5532877), Num(14, 6928004)>>),
      Arr(<<Whole(850000), Whole(1500000), Whole(12)>>) }

CoordinateLeaves ==
    Positions
    \cup { Arr(<<>>), Arr(<<Str("-17.4"), Str("14.7")>>), Whole(5), Whole(0),
           Str("abc"), Null }

RECURSIVE Nest(_, _)
Nest(leaf, d) ==
    IF d = 0 THEN leaf
    ELSE Arr(<<Nest(leaf, d - 1), Nest(OtherPosition, d - 1)>>)

GeometryCoordinates == { Nest(leaf, d) : leaf \in CoordinateLeaves, d \in 0..MaxNesting }

GeometryArgs ==
    { Null, Undef, Str("Point"), Obj(<<>>), Obj([type |-> Str("Point")]) }
    \cup { Obj([coordinates |-> c]) : c \in GeometryCoordinates }
    \cup { Obj([type |-> Str(t), coordinates |-> c]) :
             t \in GeometryTypes, c \in GeometryCoordinates }

\* Features of the uploaded collections.
Point(x, y) == Obj([type |-> Str("Point"), coordinates |-> Arr(<<x, y>>)])

Feature(geometry, properties) ==
    Obj([type |-> Str("Feature"), geometry |-> geometry, properties |-> properties])

FeaturePool ==
    { \* not an object: reading its geometry throws
      Null,
      \* geographic point, named by NOM
      Feature(Point(Num(-18, 5532877), Num(14, 6928004)), Obj([NOM |-> Str("Bac 7")])),
      \* geographic point on the Greenwich meridian, outside the regional box
      Feature(Point(Whole(0), Num(14, 5000000)),
              Obj([name |-> Str(""), nom |-> Str("Rue 3"), statut |-> Str("inactive"),
                   capacity_kg |-> Str("120"), longueur_m |-> Num(7, 5000000)])),
      \* projected point in the UTM 28N range, no properties object
      Obj([type |-> Str("Feature"), geometry |-> Point(Whole(300000), Whole(1630000))]),
      \* line whose first position is in the UTM 27N range
      Feature(Obj([type |-> Str("LineString"),
                   coordinates |-> Arr(<<Arr(<<Whole(850000), Whole(1500000)>>),
                                         Arr(<<Whole(860000), Whole(1500000)>>)>>)]),
              Obj([NAME |-> Str("Circuit 2"), CODE |-> Str("C2")])),
      \* unsupported geometry type
      Feature(Obj([type |-> Str("GeometryCollection"),
                   coordinates |-> Arr(<<Whole(1), Whole(2)>>)]),
              Obj([name |-> Str("Collection")])),
      \* point whose coordinates are strings
      Feature(Point(Str("-17.4"), Str("14.7")), Obj(<<>>)),
      \* geographic point whose capacity and length have no primitive value
      Feature(Point(Num(-17, 0), Whole(15)),
              Obj([name |-> Str("Bac 9"), capacity_kg |-> Hostile,
                   length_meters |-> Hostile])) }

FeatureCollection(features) ==
    Obj([type |-> Str("FeatureCollection"), features |-> features])

\* The property keys read for each field of a record, in the order of the
\* || chain that reads them.
Aliases ==
    [ name          |-> <<"name", "nom", "NAME", "NOM">>,
      status        |-> <<"status", "statut", "STATUS", "STATUT">>,
      type          |-> <<"type", "TYPE">>,
      capacity_kg   |-> <<"capacity_kg", "capacite_kg", "CAPACITY_KG">>,
      waste_type    |-> <<"waste_type", "type_dechet", "WASTE_TYPE">>,
      code          |-> <<"code", "CODE", "identifiant", "IDENTIFIANT">>,
      shift         |-> <<"shift", "equipe", "SHIFT", "EQUIPE">>,
      length_meters |-> <<"length_meters", "longueur_m", "LENGTH_METERS", "LONGUEUR_M">>,
      install_date  |-> <<"install_date", "date_installation", "INSTALL_DATE">> ]

NumericFields == {"capacity_kg", "length_meters"}

\* What a property bag holds under the j-th alias of a field: nothing, null,
\* the empty string, 0, false, or a value that tells the aliases apart. The
\* first alias takes each of these, the later ones all but 0 and false.
ValueKinds == {"absent", "null", "empty", "zero", "false", "value"}
LaterKinds == {"absent", "null", "empty", "value"}

KindValue(field, j, kind) ==
    CASE kind = "null"  -> Null
      [] kind = "empty" -> Str("")
      [] kind = "zero"  -> Whole(0)
      [] kind = "false" -> Bool(FALSE)
      [] kind = "value" -> IF field \in NumericFields THEN Whole(100 + j)
                           ELSE Str(<<"first", "second", "third", "fourth">>[j])

BagOf(field, kinds) ==
    LET a       == Aliases[field]
        present == { j \in 1..Len(a) : kinds[j] # "absent" }
    IN  Obj([ k \in { a[j] : j \in present } |->
                KindValue(field, CHOOSE j \in present : a[j] = k,
                          kinds[CHOOSE j \in present : a[j] = k]) ])

\* The bags that vary the aliases of one field.
PropertyBags(field) ==
    { BagOf(field, kinds) :
        kinds \in { ks \in [1..Len(Aliases[field]) -> ValueKinds] :
                       \A j \in 2..Len(Aliases[field]) : ks[j] \in LaterKinds } }

\* Collections of one geographic point carrying the bag, alone or after a
\* feature that is skipped.
RecordGeoJSONs(bag) ==
    { FeatureCollection(Arr(<<Feature(Point(Num(-18, 5532877), Num(14, 6928004)), bag)>>)),
      FeatureCollection(Arr(<<Null,
                              Feature(Point(Num(-18, 5532877), Num(14, 6928004)), bag)>>)) }

\* First arguments of uploadGeoJSONWithProj4.
GeoJSONs ==
    { Null, Undef, Str("{}"), Whole(42), Arr(<<>>),
      Obj(<<>>),
      Obj([type |-> Str("Feature"), geometry |-> Point(Whole(0), Whole(0))]),
      Obj([type |-> Str("FeatureCollection")]),
      FeatureCollection(Null),
      FeatureCollection(Obj([length |-> Whole(1)])),
      FeatureCollection(Arr(<<>>)) }
    \cup UNION { { FeatureCollection(Arr(a)) : a \in [1..n -> FeaturePool] }
                 : n \in 1..MaxFeatures }

-----------------------------------------------------------------------------
(* The upload form of the catalogue *)

MaxUploads == 3

UploadTypes == {Str("SHP"), Str("CSV"), Str("PDF"), Str("GeoJSON")}

\* Files the user may pick; a name is its stem followed by its extension.
File(stem, extension) == Obj([name |-> Tmpl(<<Str(stem), Str(extension)>>)])
Files == {File("communes", ".zip"), File("communes", ".geojson")}

\* name.endsWith(suffix)
EndsWith(name, suffix) == name.v[Len(name.v)] = Str(suffix)

\* What the user may type as the name.
Names == {Str(""), Str("Communes 2024")}

\* What the awaited text(), JSON.parse and upload of handleSubmit end in:
\* no error, an error with a message, an error without one.
UploadOutcomes ==
    {Null, Obj([message |-> Str("row violates policy")]), Obj(<<>>)}

S_BUSY    == "Traitement en cours..."
S_DONE    == "Upload réussi !"
E_FIELDS  == "Veuillez remplir tous les champs obligatoires."
E_SHP     == "Pour les fichiers SHP, veuillez fournir un fichier ZIP contenant tous les composants du Shapefile (.shp, .shx, .dbf)."
E_KIND    == "Type de fichier non supporté."
E_UPLOAD  == "Erreur lors de l'upload : "

\* The state after the component has mounted. fileInput tells whether the
\* file input of the form holds a file; flights are the handleSubmit calls
\* that await; timers counts the pending setTimeout callbacks; submits
\* counts the calls of handleSubmit; returned is how the call of
\* handleSubmit that has just returned ended, "none" when none just did.
Mounted ==
    [showAddModal |-> FALSE, uploadType |-> Null, uploadFile |-> Null,
     uploadName |-> Str(""), uploadStatus |-> Null, uploadError |-> Null,
     isUploading |-> FALSE, fileInput |-> FALSE, flights |-> <<>>, timers |-> 0,
     submits |-> 0, returned |-> "none"]

\* resetUploadForm()
resetUploadForm(u) ==
    [u EXCEPT !.uploadType = Null, !.uploadFile = Null, !.uploadName = Str(""),
              !.uploadStatus = Null, !.uploadError = Null, !.isUploading = FALSE]

\* A sequence without its i-th element.
Without(q, i) == [k \in 1..(Len(q) - 1) |-> IF k < i THEN q[k] ELSE q[k + 1]]

\* The user's action leaves every upload variable alone, and no call of
\* handleSubmit has just returned unless the action says so.
Event(u) ==
    /\ ui' = u
    /\ UNCHANGED <<probe, uploadVars>>

\* "Ajouter un jeu de données"
OpenModal ==
    /\ ~ui.showAddModal
    /\ Event([ui EXCEPT !.showAddModal = TRUE, !.returned = "none"])

\* The X button of the dialog, disabled during an upload.
CloseModal ==
    /\ ui.showAddModal /\ ~ui.isUploading
    /\ Event([resetUploadForm(ui) EXCEPT !.showAddModal = FALSE, !.fileInput = FALSE,
                                         !.returned = "none"])

\* One of the four type buttons, shown while no type is chosen.
ChooseType(type) ==
    /\ ui.showAddModal /\ ~Truthy(ui.uploadType)
    /\ Event([ui EXCEPT !.uploadType = type, !.returned = "none"])

\* "Retour", disabled during an upload: the inputs are unmounted.
Back ==
    /\ ui.showAddModal /\ Truthy(ui.uploadType) /\ ~ui.isUploading
    /\ Event([ui EXCEPT !.uploadType = Null, !.fileInput = FALSE, !.returned = "none"])

\* The name input, disabled during an upload.
TypeName(name) ==
    /\ ui.showAddModal /\ Truthy(ui.uploadType) /\ ~ui.isUploading
    /\ Event([ui EXCEPT !.uploadName = name, !.returned = "none"])

\* handleFileUpload: the file input, disabled during an upload, changes to
\* `file`, Undef when the user picks nothing.
handleFileUpload(file) ==
    /\ ui.showAddModal /\ Truthy(ui.uploadType) /\ ~ui.isUploading
    /\ Event(
         IF ~Truthy(file)
         THEN [ui EXCEPT !.fileInput = FALSE, !.returned = "none"]
         ELSE IF ui.uploadType = Str("SHP") /\ ~EndsWith(Get(file, "name"), ".zip")
         THEN [ui EXCEPT !.fileInput = TRUE, !.uploadError = Str(E_SHP),
                         !.returned = "none"]
         ELSE [ui EXCEPT !.fileInput = TRUE, !.uploadFile = file, !.uploadError = Null,
                         !.returned = "none"])

\* handleSubmit up to its first await. The form submits when its button is
\* enabled and its required inputs, the name and the file, are filled.
handleSubmit ==
    /\ ui.showAddModal /\ Truthy(ui.uploadType) /\ ~ui.isUploading
    /\ Truthy(ui.uploadName) /\ ui.fileInput
    /\ ui.submits < MaxUploads
    /\ Event(
         IF ~Truthy(ui.uploadType) \/ ~Truthy(ui.uploadFile) \/ ~Truthy(ui.uploadName)
         THEN [ui EXCEPT !.uploadError = Str(E_FIELDS), !.submits = @ + 1,
                         !.returned = "rejected"]
         ELSE IF ui.uploadType \notin UploadTypes
         THEN [ui EXCEPT !.uploadStatus = Str(S_BUSY), !.uploadError = Str(E_KIND),
                         !.isUploading = FALSE, !.submits = @ + 1,
                         !.returned = "unsupported"]
         ELSE [ui EXCEPT !.isUploading = TRUE, !.uploadStatus = Str(S_BUSY),
                         !.uploadError = Null, !.submits = @ + 1,
                         !.flights = Append(@, [pc |-> "upload", type |-> ui.uploadType]),
                         !.returned = "none"])

\* The awaited upload of the i-th pending call settles with `error`: the
\* call goes on to await fetchDatasets, or its catch and finally run.
UploadSettles(i, error) ==
    /\ i \in 1..Len(ui.flights)
    /\ ui.flights[i].pc = "upload"
    /\ Event(
         IF Truthy(error)
         THEN [ui EXCEPT !.uploadError =
                             Tmpl(<<Str(E_UPLOAD),
                                    Or(Get(error, "message"), Str("Erreur inconnue"))>>),
                         !.uploadStatus = Null, !.isUploading = FALSE,
                         !.flights = Without(@, i), !.returned = "failed"]
         ELSE [ui EXCEPT !.uploadStatus = Str(S_DONE),
                         !.flights[i].pc = "fetch", !.returned = "none"])

\* fetchDatasets, which catches its own errors, is over: the i-th pending
\* call starts the two-second timer, runs its finally and returns.
FetchSettles(i) ==
    /\ i \in 1..Len(ui.flights)
    /\ ui.flights[i].pc = "fetch"
    /\ Event([ui EXCEPT !.timers = @ + 1, !.isUploading = FALSE,
                        !.flights = Without(@, i), !.returned = "succeeded"])

\* The callback of setTimeout: the dialog closes and the form is reset.
TimerFires ==
    /\ ui.timers > 0
    /\ Event([resetUploadForm(ui) EXCEPT !.showAddModal = FALSE, !.fileInput = FALSE,
                                         !.timers = @ - 1, !.returned = "none"])

-----------------------------------------------------------------------------
(* The pure helpers, called on their own *)

\* No proj4 call was made.
NoProj == [kind |-> "none", lon |-> NaN, lat |-> NaN, message |-> ""]

NoProbe ==
    [fn |-> "none", arg |-> Undef, done |-> FALSE, ret |-> Undef, calls |-> <<>>,
     proj |-> NoProj]

Pending(fn, arg) ==
    [fn |-> fn, arg |-> arg, done |-> FALSE, ret |-> Undef, calls |-> <<>>,
     proj |-> NoProj]

Idle ==
    /\ pc = "idle"
    /\ geojson = Undef
    /\ table = "collection_points"
    /\ conversionStats = Undef
    /\ index = 0
    /\ mapped = <<>>
    /\ toInsert = Undef
    /\ inserts = <<>>
    /\ outcome = [kind |-> "none", value |-> Undef]
    /\ trace = <<>>
    /\ others = <<>>
    /\ ui = Mounted

Detect ==
    /\ probe.fn = "detectCoordinateSystem"
    /\ ~probe.done
    /\ probe' = [probe EXCEPT !.done = TRUE,
                   !.ret = Str(detectCoordinateSystem(At(probe.arg, 0), At(probe.arg, 1))),
                   !.calls = IF FallsBack(At(probe.arg, 0), At(probe.arg, 1))
                             THEN <<CallOf("console.warn", TRUE)>> ELSE <<>>]
    /\ UNCHANGED <<uploadVars, ui>>

Convert(proj) ==
    /\ probe.fn = "convertCoordinates"
    /\ ~probe.done
    /\ \E run \in { ConvertRun(probe.arg, proj) } :
         probe' = [probe EXCEPT !.done = TRUE,
                     !.ret = run.ret,
                     !.calls = run.calls,
                     !.proj = IF Len(run.calls) = 2 THEN proj ELSE NoProj]
    /\ UNCHANGED <<uploadVars, ui>>

Extract ==
    /\ probe.fn = "extractCoordinates"
    /\ ~probe.done
    /\ probe' = [probe EXCEPT !.done = TRUE, !.ret = extractCoordinates(probe.arg)]
    /\ UNCHANGED <<uploadVars, ui>>

InitFn ==
    /\ probe \in { Pending("detectCoordinateSystem", Arr(<<x, y>>)) :
                     x \in DetectXs, y \in DetectYs }
                 \cup { Pending("convertCoordinates", c) : c \in ConvertArgs }
                 \cup { Pending("extractCoordinates", g) : g \in GeometryArgs }
    /\ Idle

NextFn ==
    \/ Detect
    \/ \E proj \in ProjOutcomes : Convert(proj)
    \/ Extract

SpecFn == InitFn /\ [][NextFn]_vars

-----------------------------------------------------------------------------
(* The batch upload *)

Init ==
    /\ probe = NoProbe
    /\ Idle

Next ==
    \/ pc = "idle" /\ \E g \in GeoJSONs, tbl \in Tables : Call(g, tbl)
    \/ PreCheck
    \/ pc = "map" /\ \E proj \in BatchProjOutcomes : MapStep(proj)
    \/ Filter
    \/ \E response \in InsertResponses : InsertSettles(response)

Spec == Init /\ [][Next]_vars

\* The same invocation on the collections that vary the property bag.
NextRecords ==
    \/ /\ pc = "idle"
       /\ \E field \in DOMAIN Aliases : \E bag \in PropertyBags(field) :
            \E g \in RecordGeoJSONs(bag), tbl \in Tables : Call(g, tbl)
    \/ PreCheck
    \/ pc = "map" /\ \E proj \in BatchProjOutcomes : MapStep(proj)
    \/ Filter
    \/ \E response \in InsertResponses : InsertSettles(response)

SpecRecords == Init /\ [][NextRecords]_vars

\* Two invocations, the second after the first or while the first awaits
\* its insert, on collections of one or two features: a geographic point,
\* a projected point and a point whose capacity has no primitive value.
CallFeatures ==
    { Feature(Point(Num(-18, 5532877), Num(14, 6928004)), Obj([NOM |-> Str("Bac 7")])),
      Obj([type |-> Str("Feature"), geometry |-> Point(Whole(300000), Whole(1630000))]),
      Feature(Point(Num(-17, 0), Whole(15)),
              Obj([name |-> Str("Bac 9"), capacity_kg |-> Hostile,
                   length_meters |-> Hostile])) }

CallGeoJSONs ==
    {Null}
    \cup { FeatureCollection(Arr(<<a>>)) : a \in CallFeatures }
    \cup { FeatureCollection(Arr(<<a, b>>)) : a \in CallFeatures, b \in CallFeatures }

NextCalls ==
    \/ pc = "idle" /\ \E g \in CallGeoJSONs, tbl \in Tables : Call(g, tbl)
    \/ PreCheck
    \/ pc = "map" /\ \E proj \in BatchProjOutcomes : MapStep(proj)
    \/ Filter
    \/ \E response \in InsertResponses : InsertSettles(response)
    \/ CallAgain
    \/ \E g \in CallGeoJSONs, tbl \in Tables : CallMeanwhile(g, tbl)
    \/ \E response \in InsertResponses : Resume(response)

SpecCalls == Init /\ [][NextCalls]_vars

\* The upload form, from the mounted component.
NextUI ==
    \/ OpenModal
    \/ CloseModal
    \/ \E type \in UploadTypes : ChooseType(type)
    \/ Back
    \/ \E name \in Names : TypeName(name)
    \/ \E file \in Files \cup {Undef} : handleFileUpload(file)
    \/ handleSubmit
    \/ \E i \in 1..MaxUploads, error \in UploadOutcomes : UploadSettles(i, error)
    \/ \E i \in 1..MaxUploads : FetchSettles(i)
    \/ TimerFires

SpecUI == Init /\ [][NextUI]_vars

-----------------------------------------------------------------------------
(* Vocabulary of the properties *)

\* lo <= v <= hi for a number v and whole bounds
Within(v, lo, hi) == Leq(Whole(lo), v) /\ Leq(v, Whole(hi))

\* The arguments and the result of a finished call of a helper.
Detected  == probe.fn = "detectCoordinateSystem" /\ probe.done
Converted == probe.fn = "convertCoordinates" /\ probe.done
ArgX == At(probe.arg, 0)
ArgY == At(probe.arg, 1)

\* The pair lies in the range and on its border.
OnBorder(x, y, xmin, xmax, ymin, ymax) ==
    /\ Within(x, xmin, xmax) /\ Within(y, ymin, ymax)
    /\ \/ x \in {Whole(xmin), Whole(xmax)}
       \/ y \in {Whole(ymin), Whole(ymax)}

ProbeCalled(fn) == \E k \in 1..Len(probe.calls) : probe.calls[k].fn = fn

\* The features of a structurally valid input, and the batch's position.
Features   == Get(geojson, "features").v
StatsExist == "total" \in DOMAIN conversionStats
MapDone    == StatsExist /\ index = Len(Features)
Threw(message) == pc = "thrown" /\ outcome.value = Error(Str(message))
ThrewInsertError ==
    /\ pc = "thrown"
    /\ outcome.value.v.t = "tmpl"
    /\ outcome.value.v.v[1] = Str(E_INSERT)

StructuralMessages == {E_OBJECT, E_TYPE, E_FEATURES, E_EMPTY}

\* Feature i (0-based) came out of convertCoordinates with a longitude and a
\* latitude; the other features failed extraction or conversion.
ConvertedOk(i) ==
    \E k \in 1..Len(trace) :
        trace[k].fn = "convertCoordinates" /\ trace[k].feature = i /\ trace[k].ok

NumConverted == Cardinality({ i \in 0..(Len(Features) - 1) : ConvertedOk(i) })

-----------------------------------------------------------------------------
(* Properties *)

\* C1: every result of convertCoordinates either has a longitude and a
\* latitude and no error, or has neither and an error: exactly one of the two.
C1_ExactlyOneOfPairOrError ==
    Converted =>
        LET r    == probe.ret
            pair == r.longitude.t \notin {"null", "undef"}
                    /\ r.latitude.t \notin {"null", "undef"} /\ r.error = Undef
            fail == r.longitude = Null /\ r.latitude = Null
                    /\ r.error.t \in {"str", "tmpl"}
        IN  (pair \/ fail) /\ ~(pair /\ fail)

\* C1 witness: a projected pair whose reprojection fell outside the box.
C1_Witness ==
    /\ Converted /\ ProbeCalled("proj4")
    /\ probe.ret.longitude = Null /\ probe.ret.error.t = "tmpl"

\* C2: once every feature has been mapped, success + failed = total.
C2_SuccessPlusFailedIsTotal ==
    MapDone =>
        conversionStats.success + conversionStats.failed = conversionStats.total

\* C3: at every point of a batch, success <= total and failed <= total, total
\* being the number of features.
C3_CountersBoundedByTotal ==
    StatsExist =>
        /\ conversionStats.total = Len(Features)
        /\ conversionStats.success <= conversionStats.total
        /\ conversionStats.failed <= conversionStats.total

\* C3 witness: a batch of several features each counted under both counters.
C3_Witness ==
    /\ MapDone /\ conversionStats.total >= 2
    /\ conversionStats.success = conversionStats.total
    /\ conversionStats.failed = conversionStats.total

\* C4: a call that returns has handed n-k records to the insert and reports
\* count = success = n-k, skipped = failed = k, total = n, for n features of
\* which n-k were converted.
C4_ReturnedCounts ==
    pc = "returned" =>
        LET n == Len(Features)
            r == outcome.value
        IN  /\ Len(inserts) = 1
            /\ Len(inserts[1].records) = NumConverted
            /\ r.count = NumConverted
            /\ r.conversionStats.success = NumConverted
            /\ r.skipped = n - NumConverted
            /\ r.conversionStats.failed = n - NumConverted
            /\ r.conversionStats.total = n

\* C5: the structural checks run in the order object, type, features array,
\* non-empty; each has its own message; when one fails nothing is extracted
\* or converted, no statistics exist and the insert is not called.
C5_StructuralChecksFirst ==
    LET g       == geojson
        noObj   == g.t \notin {"arr", "obj", "hostile"}
        noType  == Get(g, "type") # Str("FeatureCollection")
        noArray == Get(g, "features").t # "arr"
        empty   == Get(g, "features") = Arr(<<>>)
        bad     == noObj \/ noType \/ noArray \/ empty
    IN  /\ Cardinality(StructuralMessages) = 4
        /\ pc \notin {"idle", "check"} =>
            /\ noObj => Threw(E_OBJECT)
            /\ ~noObj /\ noType => Threw(E_TYPE)
            /\ ~noObj /\ ~noType /\ noArray => Threw(E_FEATURES)
            /\ ~noObj /\ ~noType /\ ~noArray /\ empty => Threw(E_EMPTY)
            /\ bad => trace = <<>> /\ conversionStats = Undef /\ inserts = <<>>
                      /\ mapped = <<>> /\ index = 0
            /\ ~bad => \A m \in StructuralMessages : ~Threw(m)

\* C5 witness: an array, which has neither the type nor the features, is
\* refused for its type.
C5_Witness == geojson = Arr(<<>>) /\ Threw(E_TYPE)

\* C6: a feature that yields no record is counted under failed and the map
\* goes on to the next feature; insert and the empty-result error come only
\* after the last feature; nothing but the structural, empty-result and
\* insertion errors is thrown.
C6_FeatureFailuresStayLocal ==
    [][ /\ (pc = "map" /\ index < Len(Features)) =>
            /\ pc' = "map" /\ index' = index + 1 /\ Len(mapped') = index'
            /\ mapped'[index'] = Null =>
                   conversionStats'.failed = conversionStats.failed + 1
        /\ (pc = "map" /\ pc' # "map") => Len(mapped') = Len(Features)
        /\ pc' = "thrown" =>
            \/ \E m \in StructuralMessages \cup {E_NONE} :
                   outcome'.value = Error(Str(m))
            \/ /\ outcome'.value.v.t = "tmpl"
               /\ outcome'.value.v.v[1] = Str(E_INSERT)
      ]_vars

\* C6 witness: a returned batch whose first feature was dropped after its
\* conversion had succeeded, and whose second feature gave a record.
C6_Witness ==
    /\ pc = "returned" /\ Len(mapped) >= 2
    /\ mapped[1] = Null /\ ConvertedOk(0) /\ mapped[2] # Null

\* C7: the empty-result error is thrown only after all features were mapped
\* and none gave a record, its message is none of the structural ones, and
\* insert is called only after the last feature and never without records.
C7_EmptyResultAfterProcessing ==
    /\ E_NONE \notin StructuralMessages
    /\ Threw(E_NONE) => MapDone /\ Len(mapped) = Len(Features) /\ inserts = <<>>
    /\ (MapDone /\ pc # "map" /\ \A k \in 1..Len(mapped) : mapped[k] = Null)
           => Threw(E_NONE)
    /\ \A k \in 1..Len(inserts) :
           /\ inserts[k].records # <<>>
           /\ \A j \in 1..Len(inserts[k].records) : inserts[k].records[j] # Null
    /\ inserts # <<>> => MapDone /\ Len(mapped) = Len(Features)

\* C7 witness: a batch of several features, none of which gave a record.
C7_Witness == Threw(E_NONE) /\ Len(Features) >= 2 /\ ConvertedOk(0)

\* C8: the first matching rule decides, in the order geographic, UTM 28N,
\* UTM 27N, Lambert; a pair in both UTM ranges is UTM 28N.
C8_FirstMatchWins ==
    Detected =>
        LET x   == ArgX
            y   == ArgY
            geo == Within(x, -180, 180) /\ Within(y, -90, 90)
            u28 == Within(x, 200000, 800000) /\ Within(y, 1400000, 1900000)
            u27 == Within(x, 400000, 900000) /\ Within(y, 1400000, 1900000)
            lam == Within(x, 200000, 600000) /\ Within(y, 0, 500000)
        IN  /\ geo => probe.ret = Str("EPSG:4326")
            /\ ~geo /\ u28 => probe.ret = Str("EPSG:32628")
            /\ ~geo /\ ~u28 /\ u27 => probe.ret = Str("EPSG:32627")
            /\ ~geo /\ ~u28 /\ ~u27 /\ lam => probe.ret = Str("EPSG:2147")
            /\ u28 /\ u27 => probe.ret = Str("EPSG:32628")

\* C8 witness: a pair in both UTM ranges.
C8_Witness ==
    /\ Detected /\ ArgX = Whole(500000) /\ ArgY = Whole(1650000)
    /\ probe.ret = Str("EPSG:32628")

\* C9 as stated: a pair on the border of a detection range is classified as
\* the system of that range.
C9_BorderIsOwnSystem ==
    Detected =>
        /\ OnBorder(ArgX, ArgY, -180, 180, -90, 90) => probe.ret = Str("EPSG:4326")
        /\ OnBorder(ArgX, ArgY, 200000, 800000, 1400000, 1900000)
               => probe.ret = Str("EPSG:32628")
        /\ OnBorder(ArgX, ArgY, 400000, 900000, 1400000, 1900000)
               => probe.ret = Str("EPSG:32627")
        /\ OnBorder(ArgX, ArgY, 200000, 600000, 0, 500000) => probe.ret = Str("EPSG:2147")

\* C9 amended: a pair on the border of the geographic, UTM 28N or Lambert
\* range is classified as that system; a pair on the border of the UTM 27N
\* range is classified UTM 27N when x > 800000 and UTM 28N, whose range it
\* then also lies in, when x <= 800000.
C9_BorderIsFirstMatchingSystem ==
    Detected =>
        /\ OnBorder(ArgX, ArgY, -180, 180, -90, 90) => probe.ret = Str("EPSG:4326")
        /\ OnBorder(ArgX, ArgY, 200000, 800000, 1400000, 1900000)
               => probe.ret = Str("EPSG:32628")
        /\ OnBorder(ArgX, ArgY, 400000, 900000, 1400000, 1900000)
               => probe.ret = IF Leq(ArgX, Whole(800000)) THEN Str("EPSG:32628")
                              ELSE Str("EPSG:32627")
        /\ OnBorder(ArgX, ArgY, 200000, 600000, 0, 500000) => probe.ret = Str("EPSG:2147")

\* C9 witness: the lower-left corner of the UTM 27N range.
C9_Witness ==
    /\ Detected /\ ArgX = Whole(400000) /\ ArgY = Whole(1400000)
    /\ probe.ret = Str("EPSG:32628")

\* C10: a numeric pair in the geographic range comes back unchanged, as
\* geographic, without error and without a proj4 call, also when it lies
\* outside the regional box or has more than six decimals.
C10_GeographicPassthrough ==
    (/\ Converted /\ IsArray(probe.arg) /\ Len(probe.arg.v) >= 2
     /\ IsNumber(ArgX) /\ IsNumber(ArgY)
     /\ Within(ArgX, -180, 180) /\ Within(ArgY, -90, 90))
    => /\ probe.ret.longitude = ArgX
       /\ probe.ret.latitude = ArgY
       /\ probe.ret.sourceSystem = Str("EPSG:4326")
       /\ probe.ret.error = Undef
       /\ ~ProbeCalled("proj4")

\* C10 witness: a pair west of the regional box with a seventh decimal.
C10_Witness ==
    /\ Converted /\ ArgX = Whole(-180) /\ ArgY = Num(14, 6928004)
    /\ probe.ret.longitude = Whole(-180) /\ probe.ret.latitude = Num(14, 6928004)

\* The pair proj4 returned in a finished call of convertCoordinates, and the
\* regional box written out: -17.8 <= lon <= -11.2 and 12 <= lat <= 16.8.
Projected == Converted /\ ProbeCalled("proj4")
InBox(lon, lat) ==
    /\ Leq(Num(-18, 2000000), lon) /\ Leq(lon, Num(-12, 8000000))
    /\ Leq(Whole(12), lat)         /\ Leq(lat, Num(16, 8000000))
IsFailure(r) ==
    /\ "longitude" \in DOMAIN r
    /\ r.longitude = Null /\ r.latitude = Null
    /\ r.error.t \in {"str", "tmpl"}
IsSuccess(r) ==
    /\ "longitude" \in DOMAIN r
    /\ r.longitude # Null /\ r.latitude # Null

\* C11: a pair classified as a projected system is returned as a success
\* only when the pair proj4 gave lies inside the regional box; otherwise the
\* result is a failure with null longitude and latitude and an error text;
\* and every success naming a projected system lies inside the box.
C11_ProjectedSuccessOnlyInsideBox ==
    /\ (Projected /\ probe.proj.kind = "return") =>
          IF InBox(probe.proj.lon, probe.proj.lat)
          THEN IsSuccess(probe.ret)
          ELSE IsFailure(probe.ret)
    /\ (Converted /\ probe.ret.sourceSystem \in {Str(UTM28N), Str(UTM27N), Str(LAMBERT)}) =>
          /\ probe.proj.kind = "return"
          /\ InBox(probe.proj.lon, probe.proj.lat)
          /\ InBox(probe.ret.longitude, probe.ret.latitude)

\* A pair proj4 placed a seventh decimal outside the box was rejected.
C11_Witness ==
    /\ Projected
    /\ probe.proj = ProjReturns(Num(-12, 8000000), Num(16, 8000001))
    /\ IsFailure(probe.ret)

\* C12: an argument that is not an array, has fewer than two elements, or
\* whose first or second element is not a number fails at once, with null
\* longitude and latitude and an error text, and neither the detection nor
\* the projection is called.
C12_MalformedFailsBeforeDetection ==
    (Converted /\ (\/ ~IsArray(probe.arg)
                   \/ Len(probe.arg.v) < 2
                   \/ ArgX.t \notin {"num", "nan", "inf"}
                   \/ ArgY.t \notin {"num", "nan", "inf"})) =>
        /\ IsFailure(probe.ret)
        /\ probe.ret.error \in {Str("Coordonnées invalides"),
                                Str("Coordonnées non numériques")}
        /\ probe.calls = <<>>

\* A pair whose second element is a string failed without any call.
C12_Witness ==
    /\ Converted
    /\ IsArray(probe.arg) /\ Len(probe.arg.v) >= 2
    /\ ArgX.t = "num" /\ ArgY.t = "str"
    /\ probe.ret = Failure(Str("Coordonnées non numériques"))
    /\ probe.calls = <<>>

\* C13: when proj4 throws, convertCoordinates returns a failure whose error
\* carries the thrown message, and for no argument does an exception leave
\* convertCoordinates.
C13_ProjectionFailureIsCaught ==
    Converted =>
        /\ IsSuccess(probe.ret) \/ IsFailure(probe.ret)
        /\ probe.proj.kind = "throw" =>
              /\ IsFailure(probe.ret)
              /\ probe.ret.error.t = "tmpl"
              /\ probe.ret.error.v[Len(probe.ret.error.v)] = Str(probe.proj.message)

\* proj4 threw in a finished call.
C13_Witness ==
    /\ Projected
    /\ probe.proj.kind = "throw"
    /\ probe.ret.error =
         Tmpl(<<Str("Erreur de conversion: "), Str("coordinates must be finite numbers")>>)

\* A finished call of extractCoordinates, its geometry's type and coordinates.
Extracted == probe.fn = "extractCoordinates" /\ probe.done
ArgType   == Get(probe.arg, "type")
ArgCoords == Get(probe.arg, "coordinates")

\* The number of lists around a position in the coordinates of each
\* supported type.
ListsAround ==
    [ Point |-> 0, LineString |-> 1, MultiPoint |-> 1, Polygon |-> 2,
      MultiLineString |-> 2, MultiPolygon |-> 3 ]
Supported == { Str(t) : t \in DOMAIN ListsAround }

\* The geometry is of a supported type and its coordinates hold positions at
\* the depth of that type.
WellFormed ==
    /\ ArgType \in Supported
    /\ \E p \in Positions : ArgCoords = Nest(p, ListsAround[ArgType.v])

\* C14: for a well-formed geometry extractCoordinates returns coordinates
\* for a Point, coordinates[0] for a LineString or MultiPoint,
\* coordinates[0][0] for a Polygon or MultiLineString and
\* coordinates[0][0][0] for a MultiPolygon; for any other type tag it
\* returns null.
C14_RepresentativePosition ==
    Extracted =>
      /\ WellFormed =>
            probe.ret =
              CASE ArgType.v = "Point" -> ArgCoords
                [] ArgType.v \in {"LineString", "MultiPoint"} -> ArgCoords.v[1]
                [] ArgType.v \in {"Polygon", "MultiLineString"} -> ArgCoords.v[1].v[1]
                [] ArgType.v = "MultiPolygon" -> ArgCoords.v[1].v[1].v[1]
      /\ ArgType \notin Supported => probe.ret = Null

\* The first position of the first ring of a polygon was returned.
C14_Witness ==
    /\ Extracted
    /\ WellFormed /\ ArgType = Str("Polygon")
    /\ probe.ret = Arr(<<Num(-18, 5532877), Num(14, 6928004)>>)

\* C15: whatever the type tag and the shape of the coordinates, the value
\* extractCoordinates returns is null or a flat array of exactly two numbers.
C15_NullOrFlatPair ==
    Extracted =>
      \/ probe.ret = Null
      \/ /\ IsArray(probe.ret)
         /\ Len(probe.ret.v) = 2
         /\ \A k \in 1..2 : IsNumber(probe.ret.v[k])

\* The number of lists one finds by following first elements.
RECURSIVE Depth(_)
Depth(v) ==
    IF ~IsArray(v) THEN 0
    ELSE IF v.v = <<>> THEN 1 ELSE 1 + Depth(v.v[1])

Mapped(k) == mapped[k]
Bag(k)    == Get(Features[k], "properties")

\* The value is present, not null and not empty.
Present(v) == v \notin {Undef, Null, Str("")}

\* The value under the first alias that is present, or the default.
FirstPresent(bag, aliases, default) ==
    LET js == { j \in 1..Len(aliases) : Present(Get(bag, aliases[j])) }
    IN  IF js = {} THEN default
        ELSE Get(bag, aliases[CHOOSE j \in js : \A i \in js : j <= i])

\* Every alias of the field holds text, null or nothing.
TextOnly(bag, aliases) ==
    \A j \in 1..Len(aliases) : Get(bag, aliases[j]).t \in {"undef", "null", "str"}

UsedValue(field, v) == IF field \in NumericFields THEN NumberOr0(v) ELSE v

\* C18: for each aliased field of a record the value used is that of the
\* first alias, in priority order, that is present, not null and not empty;
\* a present 0 or false under an earlier alias is used, not skipped for a
\* later alias or for the default.
C18_FirstPresentAliasIsUsed ==
    \A k \in 1..Len(mapped) :
        Mapped(k) # Null =>
            \A field \in DOMAIN Aliases \cap DOMAIN Mapped(k).v :
                LET first == FirstPresent(Bag(k), Aliases[field], Undef)
                IN  first # Undef => Mapped(k).v[field] = UsedValue(field, first)

\* The defaults of the fields, by table.
Defaults ==
    [ collection_points |->
        [ status |-> Str("active"), type |-> Str("bin"), capacity_kg |-> Whole(0),
          waste_type |-> Str("general") ],
      urban_furniture |->
        [ status |-> Str("good"), type |-> Str("PRN"), capacity_kg |-> Whole(0) ],
      sweeping_routes |->
        [ status |-> Str("active"), code |-> Null, shift |-> Str("matin"),
          length_meters |-> Whole(0) ] ]

\* The bag holds none of the aliases of the field.
NoAlias(bag, field) ==
    \A j \in 1..Len(Aliases[field]) : Get(bag, Aliases[field][j]) = Undef

\* C19: a record of a feature that has none of the aliases of a field holds
\* the default: status "active" (collection points, sweeping routes) or
\* "good" (urban furniture), type "bin" or "PRN", capacity 0, waste type
\* "general", code null, shift "matin", length 0.
C19_DefaultsWhenNoAlias ==
    \A k \in 1..Len(mapped) :
        Mapped(k) # Null =>
            /\ DOMAIN Defaults[table] \subseteq DOMAIN Mapped(k).v
            /\ \A field \in DOMAIN Defaults[table] :
                  NoAlias(Bag(k), field) => Mapped(k).v[field] = Defaults[table][field]

\* A sweeping route built from a bag that only names it holds every default.
C19_Witness ==
    /\ table = "sweeping_routes"
    /\ Len(mapped) = 1
    /\ Mapped(1) # Null
    /\ Bag(1) = Obj([NOM |-> Str("fourth")])
    /\ Mapped(1).v.status = Str("active") /\ Mapped(1).v.code = Null
    /\ Mapped(1).v.shift = Str("matin") /\ Mapped(1).v.length_meters = Whole(0)

\* C20: every record, of a sweeping route as of a collection point or an
\* urban furniture item, carries the latitude and the longitude of the
\* conversion result, a coordinate equal to 0 included.
C20_RecordsCarryCoordinates ==
    \A k \in 1..Len(mapped) :
        Mapped(k) # Null =>
            /\ {"latitude", "longitude"} \subseteq DOMAIN Mapped(k).v
            /\ IsNumber(Mapped(k).v.latitude) /\ IsNumber(Mapped(k).v.longitude)

\* C23: when the insert reports an error, the invocation ends with a thrown
\* error, not a result, whose message is the insertion prefix followed by
\* the message of the reported error, as it was thrown before the outer catch.
C23_InsertErrorIsPrefixedAndRethrown ==
    (pc = "thrown" /\ inserts # <<>>) =>
        outcome = [kind  |-> "throw",
                   value |-> Error(Tmpl(<<Str("Erreur lors de l'insertion en base : "),
                                          Str("permission denied for table")>>))]

\* The insert was called and its error reached the caller.
C23_Witness ==
    /\ pc = "thrown" /\ Len(inserts) = 1
    /\ outcome.value.v = Tmpl(<<Str(E_INSERT), Str("permission denied for table")>>)

\* x and y match none of the four ranges, written out.
Strictly(lo, v) == Leq(Whole(lo), v) /\ v # Whole(lo)
NoRange(x, y) ==
    /\ ~(Within(x, -180, 180) /\ Within(y, -90, 90))
    /\ ~(Within(x, 200000, 900000) /\ Within(y, 1400000, 1900000))
    /\ ~(Within(x, 200000, 600000) /\ Within(y, 0, 500000))

\* C24: a pair of numbers that matches none of the four ranges is classified
\* UTM 28N with a warning; convertCoordinates hands it to proj4 and returns
\* a success naming UTM 28N exactly when the pair proj4 gave lies inside the
\* regional box, a failure otherwise.
C24_UnmatchedFallsBackToUTM28N ==
    /\ (Detected /\ NoRange(ArgX, ArgY)) =>
          /\ probe.ret = Str("EPSG:32628")
          /\ ProbeCalled("console.warn")
    /\ (Detected /\ ~NoRange(ArgX, ArgY)) => ~ProbeCalled("console.warn")
    /\ (Converted /\ IsArray(probe.arg) /\ Len(probe.arg.v) >= 2
          /\ IsNumber(ArgX) /\ IsNumber(ArgY) /\ NoRange(ArgX, ArgY)) =>
          /\ ProbeCalled("proj4")
          /\ IF probe.proj.kind = "return" /\ InBox(probe.proj.lon, probe.proj.lat)
             THEN IsSuccess(probe.ret) /\ probe.ret.sourceSystem = Str("EPSG:32628")
             ELSE IsFailure(probe.ret)

\* A pair outside every range was reprojected as UTM 28N and accepted.
C24_Witness ==
    /\ Converted /\ IsNumber(ArgX) /\ IsNumber(ArgY) /\ NoRange(ArgX, ArgY)
    /\ IsSuccess(probe.ret) /\ probe.ret.sourceSystem = Str(UTM28N)

\* The calls of a helper made for feature i (0-based) in the invocation.
CallsFor(fn, i) == { k \in 1..Len(trace) : trace[k].fn = fn /\ trace[k].feature = i }

\* C26: within one invocation each feature goes through extractCoordinates
\* and through convertCoordinates at most once, a failed feature included,
\* and insert is called at most once.
C26_NoRetries ==
    /\ \A i \in 0..MaxFeatures :
          /\ Cardinality(CallsFor("extractCoordinates", i)) <= 1
          /\ Cardinality(CallsFor("convertCoordinates", i)) <= 1
    /\ Len(inserts) <= 1

\* The first feature failed conversion and the invocation went on to insert
\* the others and returned.
C26_Witness ==
    /\ pc = "returned" /\ Len(inserts) = 1
    /\ \E k \in CallsFor("convertCoordinates", 0) : ~trace[k].ok

\* The count of a system in conversionStats.systems.
SystemCount(s) ==
    IF s \in DOMAIN conversionStats.systems THEN conversionStats.systems[s] ELSE 0

\* C27: the keys of conversionStats.systems are catalogue identifiers and
\* its counts add up to conversionStats.success.
C27_SystemsSumToSuccess ==
    StatsExist =>
        /\ DOMAIN conversionStats.systems
              \subseteq {"EPSG:4326", "EPSG:32628", "EPSG:32627", "EPSG:2147"}
        /\ SystemCount("EPSG:4326") + SystemCount("EPSG:32628")
             + SystemCount("EPSG:32627") + SystemCount("EPSG:2147")
             = conversionStats.success

\* A returned batch counted features of two systems.
C27_Witness ==
    /\ pc = "returned"
    /\ SystemCount("EPSG:4326") >= 1 /\ SystemCount("EPSG:32627") >= 1
    /\ conversionStats.success >= 2

\* C28: detectCoordinateSystem returns UTM 27N exactly for the pairs with
\* 800000 < x <= 900000 and 1400000 <= y <= 1900000, and for no pair with
\* x in [400000, 800000].
C28_UTM27NOnlyBeyond28N ==
    Detected =>
        /\ probe.ret = Str("EPSG:32627") <=>
              /\ Strictly(800000, ArgX) /\ Leq(ArgX, Whole(900000))
              /\ Within(ArgY, 1400000, 1900000)
        /\ Within(ArgX, 400000, 800000) => probe.ret # Str("EPSG:32627")

\* The first x beyond the UTM 28N range is classified UTM 27N.
C28_Witness ==
    /\ Detected
    /\ ArgX = Num(800000, 1) /\ ArgY = Whole(1400000)
    /\ probe.ret = Str(UTM27N)

\* The positions (counted from 1) of the features that gave a record, and
\* the j-th of them.
Kept == { k \in 1..Len(Features) :
            ConvertedOk(k - 1) /\ ~RecordThrows(Features[k], table) }
KeptAt(j) == CHOOSE k \in Kept : Cardinality({ m \in Kept : m <= k }) = j

\* C29: the records handed to insert are those of the features that did
\* not fail, in the order of these features in the input array.
C29_RecordsKeepFeatureOrder ==
    inserts # <<>> =>
        LET records == inserts[1].records
        IN  /\ Len(records) = Cardinality(Kept)
            /\ \A j \in 1..Len(records) :
                  records[j].v.name =
                      FirstPresent(Bag(KeptAt(j)), Aliases.name,
                                   Tmpl(<<Str("Élément "), Whole(KeptAt(j))>>))

\* Of three features the first failed and the two others, with different
\* names, were handed to insert.
C29_Witness ==
    /\ inserts # <<>>
    /\ Len(Features) = 3 /\ Kept = {2, 3}
    /\ Len(inserts[1].records) = 2
    /\ inserts[1].records[1].v.name # inserts[1].records[2].v.name

-----------------------------------------------------------------------------
(* Two invocations *)

Finished(f) == f.pc \in {"returned", "thrown"}

\* The second invocation followed the first, with the same arguments.
Repeated ==
    /\ others # <<>>
    /\ others[1].at \in {"returned", "thrown"}
    /\ others[1].geojson = geojson /\ others[1].table = table

\* The second invocation started while the first awaited its insert.
Overlapped == others # <<>> /\ others[1].at = "insert"

\* What proj4 contributed to an item of the mapped array.
Position(item) ==
    IF item = Null THEN Null
    ELSE [k \in DOMAIN item.v \cap {"longitude", "latitude"} |-> item.v[k]]

\* proj4 did in the second invocation what it did in the first: the same
\* calls with the same outcomes, and the same positions where both show.
SameProj ==
    /\ others[1].trace = trace
    /\ Len(others[1].mapped) = Len(mapped)
    /\ \A k \in 1..Len(mapped) :
          (mapped[k] # Null /\ others[1].mapped[k] # Null)
              => Position(mapped[k]) = Position(others[1].mapped[k])

SansDate(r) == [k \in DOMAIN r.v \ {"install_date"} |-> r.v[k]]

SameRecords(a, b) ==
    \/ a = Undef /\ b = Undef
    \/ /\ a # Undef /\ b # Undef
       /\ Len(a.v) = Len(b.v)
       /\ \A j \in 1..Len(a.v) : SansDate(a.v[j]) = SansDate(b.v[j])

\* C21: a second invocation made after the first with the same collection
\* and table, in which proj4 and insert behave as in the first, builds the
\* same records (install_date aside), the same conversionStats and the
\* same outcome: nothing of the first invocation is carried over.
C21_SecondCallRepeatsFirst ==
    (Repeated /\ Finished(Frame) /\ SameProj /\ others[1].pc = pc)
        => /\ conversionStats = others[1].conversionStats
           /\ SameRecords(toInsert, others[1].toInsert)
           /\ outcome.kind = others[1].outcome.kind
           /\ outcome.kind = "throw" => outcome.value = others[1].outcome.value
           /\ outcome.kind = "return" =>
                 /\ outcome.value.count = others[1].outcome.value.count
                 /\ outcome.value.skipped = others[1].outcome.value.skipped
                 /\ outcome.value.conversionStats = others[1].outcome.value.conversionStats

\* Both invocations returned two records of which one was reprojected.
C21_Witness ==
    /\ Repeated /\ SameProj
    /\ pc = "returned" /\ others[1].pc = "returned"
    /\ outcome.value.count = 2
    /\ \E s \in DOMAIN conversionStats.systems : s # "EPSG:4326"

FrameFeatures(f) == Get(f.geojson, "features").v

FrameOk(f, i) ==
    \E k \in 1..Len(f.trace) :
        /\ f.trace[k].fn = "convertCoordinates"
        /\ f.trace[k].feature = i
        /\ f.trace[k].ok

\* The system detected for the first position of a feature.
SystemOf(feature) ==
    Str(detectCoordinateSystem(At(extractCoordinates(Get(feature, "geometry")), 0),
                               At(extractCoordinates(Get(feature, "geometry")), 1)))

\* The statistics of an invocation that runs alone, after n features: they
\* depend on its own collection, table and conversions only.
RECURSIVE AloneStats(_, _)
AloneStats(f, n) ==
    IF n = 0
    THEN [total |-> Len(FrameFeatures(f)), success |-> 0, failed |-> 0, systems |-> <<>>]
    ELSE IF ~FrameOk(f, n - 1) THEN CountFailed(AloneStats(f, n - 1))
    ELSE IF RecordThrows(FrameFeatures(f)[n], f.table)
         THEN CountFailed(CountSuccess(AloneStats(f, n - 1), SystemOf(FrameFeatures(f)[n])))
         ELSE CountSuccess(AloneStats(f, n - 1), SystemOf(FrameFeatures(f)[n]))

AloneCount(f) ==
    Cardinality({ k \in 1..Len(FrameFeatures(f)) :
                    FrameOk(f, k - 1) /\ ~RecordThrows(FrameFeatures(f)[k], f.table) })

AsIfAlone(f) ==
    f.pc = "returned" =>
        /\ f.outcome.value.count = AloneCount(f)
        /\ f.outcome.value.skipped = AloneStats(f, Len(FrameFeatures(f))).failed
        /\ f.outcome.value.conversionStats = AloneStats(f, Len(FrameFeatures(f)))

\* C22: when a second invocation starts while the first awaits its insert,
\* each returns the count, skipped and conversionStats it would return
\* alone, and neither is inside its pass over the features while the other
\* is inside its own.
C22_OverlappingCallsAreIndependent ==
    Overlapped =>
        /\ AsIfAlone(others[1])
        /\ AsIfAlone(Frame)
        /\ others[1].pc \in {"insert", "returned", "thrown"}

\* Both overlapping invocations returned, with different counts, and one of
\* them skipped a feature.
C22_Witness ==
    /\ Overlapped
    /\ pc = "returned" /\ others[1].pc = "returned"
    /\ outcome.value.count # others[1].outcome.value.count
    /\ outcome.value.skipped > 0
    /\ others[1].geojson # geojson

-----------------------------------------------------------------------------
(* The upload form *)

InFlight == ui.flights # <<>>

\* C25: when a call of handleSubmit has just returned, exactly one of
\* uploadStatus and uploadError is set: the success status and no error
\* after a successful upload, an error and no status after any other.
C25_OneOfStatusAndError ==
    ui.returned # "none" =>
        /\ (ui.uploadStatus # Null) # (ui.uploadError # Null)
        /\ ui.returned = "succeeded" =>
              ui.uploadStatus = Str(S_DONE) /\ ui.uploadError = Null
        /\ ui.returned # "succeeded" =>
              ui.uploadError # Null /\ ui.uploadStatus = Null

\* C30: while a call of handleSubmit awaits, isUploading is true and the
\* type, the file and the name of the form are set, whenever the timer of
\* an earlier upload fires.
C30_FormKeptDuringUpload ==
    InFlight =>
        /\ ui.isUploading
        /\ ui.uploadType # Null /\ ui.uploadFile # Null /\ ui.uploadName # Str("")

====
